---- MODULE Spec2Model ----
(***************************************************************************)
(* Model of sys/net/aodvv2/aodvv2.c: the AODVv2 RFC5444 engine.            *)
(*                                                                         *)
(* Threads of the model: the engine thread (_event_loop), the callers of   *)
(* the public API (aodvv2_init, aodvv2_send_rreq, aodvv2_send_rrep,        *)
(* aodvv2_find_route) and the network stack (inbound delivery, control     *)
(* messages).  IPC follows the RIOT kernel calls the source makes:         *)
(* msg_send from a thread queues the message, hands it over directly when  *)
(* the target is blocked in msg_receive, blocks the sender while the       *)
(* target's queue is full (or not yet initialised), and fails only for a   *)
(* PID that names no thread.                                               *)
(***************************************************************************)
EXTENDS Integers, Sequences, FiniteSets, TLC

(* ------------------------------ bounds -------------------------------- *)
\* CONFIG_AODVV2_RFC5444_MSG_QUEUE_SIZE: capacity of the engine's queue
QueueSize == 2
\* public send_rreq / send_rrep / find_route calls started in a run
MaxCalls == 2
\* aodvv2_init calls started in a run
MaxInits == 2
\* messages the network stack and other threads send the engine in a run:
\* inbound packets, netapi GET / SET, anything else
MaxEnv == 1

(* --------------------------- program constants ------------------------ *)
KERNEL_PID_UNDEF == 0
\* errno value of "operation not supported"
ENOTSUP == 134
\* the values thread_create() hands back: a PID, or a negative error
EnginePid == 1
ThreadCreateErrors == {-1}

\* threads calling the send API, and the thread calling aodvv2_init
Senders == {"t1"}
Initers == {"main"}
\* threads that call aodvv2_init at the same time
Racers == {"main", "main2"}
\* threads that call aodvv2_find_route at the same time
Finders == {"t1", "t2"}
Callers == Senders \cup Finders \cup Initers \cup Racers
Netifs == {"if0", "if1"}
NodeAddr == "self"
Addrs == {"a1", "a2"}
ipv6_addr_all_manet_routers_link_local == "ff02::6d"
METRIC_HOP_COUNT == "hop_count"
MetricKinds == {METRIC_HOP_COUNT, "other_metric"}

NoLock == "unlocked"
ENGINE == "engine"

(* ---------------------- collaborators (not in src) -------------------- *)
\* ipv6_addr_to_netaddr: an IPv6 address as the codec's struct netaddr
ipv6_addr_to_netaddr(a) == [type |-> "AF_INET6", prefix_len |-> 128, addr |-> a]
\* the zero-filled static struct netaddr before anything is stored in it
NetaddrUnset == [type |-> "AF_UNSPEC", prefix_len |-> 0, addr |-> "none"]
\* aodvv2_metric_max: the maximum traversal bound of a metric kind
aodvv2_metric_max(kind) == IF kind = METRIC_HOP_COUNT THEN 10 ELSE 0
\* aodvv2_seqnum_init: the value the sequence-number store starts from
aodvv2_seqnum_init == 1
\* aodvv2_seqnum_get: the store's current value
aodvv2_seqnum_get(store) == store
\* aodvv2_seqnum_inc: one increment of the store
aodvv2_seqnum_inc(store) == store + 1
\* aodvv2_rreqtable_init, aodvv2_rreqtable_add: the table as this module sees
\* it, the number of requests registered and the newest of them
aodvv2_rreqtable_init == [n |-> 0, newest |-> "none"]
aodvv2_rreqtable_add(table, pkt) == [n |-> table.n + 1, newest |-> pkt]

(* ----------------------------- data ----------------------------------- *)
Node(addr, metric, seq) == [addr |-> addr, metric |-> metric, seqnum |-> seq]
PacketData(hop, mt, orig, targ) ==
    [hoplimit |-> hop, metric_type |-> mt, orig_node |-> orig, targ_node |-> targ]

\* the calls other modules make: a request and a reply, with payload and next hop
SampleSends ==
    { [op |-> "send_rreq",
       pkt |-> PacketData(5, METRIC_HOP_COUNT,
                          Node(ipv6_addr_to_netaddr("a1"), 1, 7),
                          Node(ipv6_addr_to_netaddr("a2"), 0, 3)),
       next_hop |-> "a1"],
      [op |-> "send_rrep",
       pkt |-> PacketData(4, METRIC_HOP_COUNT,
                          Node(ipv6_addr_to_netaddr("a2"), 2, 9),
                          Node(ipv6_addr_to_netaddr("a1"), 0, 0)),
       next_hop |-> "a2"] }

NoPkt == PacketData(0, "none", Node(NetaddrUnset, 0, 0), Node(NetaddrUnset, 0, 0))
NoMsg == [type |-> "none", ptr |-> 0]
NoItem == [pkt |-> NoPkt, next_hop |-> "none"]
\* a caller's locals; full: the queue was at capacity when the send was called
NoCall == [op |-> "none", arg |-> "none", pkt |-> NoPkt, next_hop |-> "none", item |-> 0,
           full |-> FALSE, held |-> 0]
\* what an API call hands back to its caller: the value returned (val) and
\* what led to it
NoReturn == [op |-> "none", val |-> 0, alloc |-> FALSE, res |-> 0, full |-> FALSE,
             item |-> 0, arg |-> "none"]

SnipNames == {"payload", "udp", "ip", "netif"}
NoSnip == [alloc |-> FALSE, rel |-> 0, handed |-> 0]
NoSnips == [s \in SnipNames |-> NoSnip]

VARIABLES
    \* --- statics of aodvv2.c
    _pid,             \* line 47
    _netif,           \* line 58
    _na_netif,        \* line 59
    netreg,           \* line 64: the PID registered for the protocol port
    _reader,          \* line 70: TRUE once initialised with both handlers
    _reader_lock,     \* line 71: owner
    _writer,          \* line 76: TRUE once initialised with target and sink
    _writer_context,  \* line 77: packet_data, type, target_addr
    _writer_lock,     \* line 81: owner
    \* --- configuration and collaborators
    cfgMetric,        \* CONFIG_AODVV2_DEFAULT_METRIC
    seqnum,           \* the sequence-number store
    rreqtable,        \* requests registered with the duplicate-suppression table
    clients,          \* prefixes registered with the client table
    \* --- the engine thread
    epc,              \* position in _event_loop / _send_* / _send_packet / _receive
    queueInit,        \* msg_init_queue has run
    queue,            \* the thread's message queue, oldest first
    waiters,          \* callers blocked in msg_send on this thread
    msg,              \* _event_loop's local msg
    m,                \* _event_loop's local copy of the work item
    parsed,           \* result of rfc5444_reader_handle_packet in _receive
    \* --- memory
    heap,             \* malloc'ed aodvv2_msg_t work items
    pktbuf,           \* the snips _send_packet builds for the current message
    pkts,             \* inbound packets handed over by the network stack
    \* --- API callers
    pc,               \* position of each caller
    call,             \* locals of each caller's call in progress
    last,             \* what this step delivered: the return of an API call,
                      \* the engine's reply to a GET / SET, a logged discard
    \* --- history
    fx,               \* side effects of aodvv2_init, counted
    hist              \* budgets spent; the last sequence number stamped

vars == << _pid, _netif, _na_netif, netreg, _reader, _reader_lock, _writer,
           _writer_context, _writer_lock, cfgMetric, seqnum, rreqtable, clients,
           epc, queueInit, queue, waiters, msg, m, parsed, heap, pktbuf, pkts,
           pc, call, last, fx, hist >>

staticsVars == << _pid, _netif, _na_netif, netreg, _reader, _writer >>
lockVars == << _reader_lock, _writer_lock >>
collabVars == << cfgMetric, seqnum, rreqtable, clients >>
ipcVars == << queueInit, queue, waiters >>
callerVars == << pc, call >>

Init ==
    /\ _pid = KERNEL_PID_UNDEF
    /\ _netif = "none"
    /\ _na_netif = NetaddrUnset
    /\ netreg = KERNEL_PID_UNDEF
    /\ _reader = FALSE
    /\ _reader_lock = NoLock
    /\ _writer = FALSE
    /\ _writer_context = [packet_data |-> NoPkt, type |-> "none", target_addr |-> "none"]
    /\ _writer_lock = NoLock
    /\ cfgMetric \in MetricKinds
    /\ seqnum = 0
    /\ rreqtable = aodvv2_rreqtable_init
    /\ clients = << >>
    /\ epc = "none"
    /\ queueInit = FALSE
    /\ queue = << >>
    /\ waiters = {}
    /\ msg = NoMsg
    /\ m = NoItem
    /\ parsed = "none"
    /\ heap = << >>
    /\ pktbuf = NoSnips
    /\ pkts = << >>
    /\ pc = [c \in Callers |-> "idle"]
    /\ call = [c \in Callers |-> NoCall]
    /\ last = NoReturn
    /\ fx = [threads |-> 0, mutexInits |-> 0, collabInits |-> 0, netregs |-> 0,
             readerInits |-> 0, writerInits |-> 0]
    /\ hist = [calls |-> 0, inits |-> 0, env |-> 0, stamp |-> -1, firstId |-> 0]

(* ------------------------- RIOT IPC, as called ------------------------ *)
\* a PID that names a thread: msg_send fails with -1 for any other
ThreadExists(p) == p = EnginePid /\ epc # "none"

\* the queue holds its full capacity and the thread is not waiting for a message
QueueFull == queueInit /\ Len(queue) = QueueSize /\ epc # "blocked"

\* msg_send(&ipc_msg, _pid) from thread c (lines 400, 428): what it leaves behind.
\* res = 1: queued, or handed over to a thread blocked in msg_receive;
\* res = -1: _pid names no thread; blocked: the queue cannot take the message
\* and the sender waits on the target until a msg_receive takes it.
msg_send(c, mm) ==
    LET same == [res |-> -1, blocked |-> FALSE, queue |-> queue, waiters |-> waiters,
                 msg |-> msg, epc |-> epc]
    IN  IF ~ThreadExists(_pid) THEN same
        ELSE IF epc = "blocked"
        THEN [same EXCEPT !.res = 1, !.msg = mm, !.epc = "dispatch"]
        ELSE IF queueInit /\ Len(queue) < QueueSize
        THEN [same EXCEPT !.res = 1, !.queue = Append(queue, mm)]
        ELSE [same EXCEPT !.res = 0, !.blocked = TRUE, !.waiters = waiters \cup {c}]

\* the IPC message of a send call with locals b whose work item is item
\* (lines 396-398, 424-426)
IpcMsg(b, item) ==
    [type |-> IF b.op = "send_rrep" THEN "SEND_RREP" ELSE "SEND_RREQ", ptr |-> item]

\* the queue slot msg_receive reads (line 243): the oldest message
QueueGetNewest(q) == [got |-> q[Len(q)], rest |-> SubSeq(q, 1, Len(q) - 1)]
QueueGet(q) == [got |-> Head(q), rest |-> Tail(q)]

\* the value aodvv2_send_rreq / aodvv2_send_rrep return for a msg_send result
\* (lines 400-405, 428-433)
SendReturn(res) == IF res < 1 THEN -1 ELSE 0

\* what a send call with locals b hands back: malloc gave item (0: NULL),
\* msg_send gave res
Outcome(b, item, res) ==
    [op |-> b.op, val |-> IF item = 0 THEN -1 ELSE SendReturn(res), alloc |-> item # 0,
     res |-> res, full |-> b.full, item |-> item, arg |-> b.arg]

(* --------------------------- the engine thread ------------------------ *)
\* a fault halts the node: nothing runs afterwards
Alive == epc # "crashed"

\* lines 237-240: msg_init_queue, reply message set up
EngineInitQueue ==
    /\ epc = "start"
    /\ queueInit' = TRUE
    /\ epc' = "receive"
    /\ last' = NoReturn
    /\ UNCHANGED << staticsVars, lockVars, collabVars, _writer_context, queue, waiters,
                    msg, m, parsed, heap, pktbuf, pkts, callerVars, fx, hist >>

\* a sender that was waiting is woken: its msg_send returns 1 and so its call returns
Wake(w) ==
    /\ waiters' = waiters \ {w}
    /\ pc' = [pc EXCEPT ![w] = "idle"]
    /\ last' = Outcome(call[w], call[w].item, 1)
    /\ call' = [call EXCEPT ![w] = NoCall]

\* line 243, msg_receive with a queued message: take the oldest; a sender that
\* was waiting gets the freed slot and is woken
EngineReceiveQueued ==
    /\ epc = "receive"
    /\ queue # << >>
    /\ LET g == QueueGet(queue) IN
       /\ msg' = g.got
       /\ epc' = "dispatch"
       /\ IF waiters = {}
          THEN /\ queue' = g.rest
               /\ last' = NoReturn
               /\ UNCHANGED << waiters, callerVars >>
          ELSE \E w \in waiters :
               /\ queue' = Append(g.rest, IpcMsg(call[w], call[w].item))
               /\ Wake(w)
    /\ UNCHANGED << staticsVars, lockVars, collabVars, _writer_context, queueInit,
                    m, parsed, heap, pktbuf, pkts, fx, hist >>

\* line 243, msg_receive with an empty queue and a waiting sender: its message
\* is copied straight into msg
EngineReceiveWaiter ==
    /\ epc = "receive"
    /\ queue = << >>
    /\ \E w \in waiters :
       /\ msg' = IpcMsg(call[w], call[w].item)
       /\ Wake(w)
    /\ epc' = "dispatch"
    /\ UNCHANGED << staticsVars, lockVars, collabVars, _writer_context, queueInit,
                    queue, m, parsed, heap, pktbuf, pkts, fx, hist >>

\* line 243, msg_receive with nothing to take: the thread suspends
EngineReceiveBlock ==
    /\ epc = "receive"
    /\ queue = << >>
    /\ waiters = {}
    /\ epc' = "blocked"
    /\ last' = NoReturn
    /\ UNCHANGED << staticsVars, lockVars, collabVars, _writer_context, ipcVars,
                    msg, m, parsed, heap, pktbuf, pkts, callerVars, fx, hist >>

\* the message kind _send_rreq / _send_rrep bind (lines 95, 119)
WriterTypeRreq(t) == "RFC5444_MSGTYPE_RREQ"
WriterType(t) == IF t = "SEND_RREQ" THEN "RFC5444_MSGTYPE_RREQ" ELSE "RFC5444_MSGTYPE_RREP"

\* lines 246-253 (257-264) and 86-102 (110-126): copy the work item out of the
\* heap and free it; then, under the writer lock, bind it into the writer
\* context, create the message and flush.  With the writer initialised the
\* codec either calls _send_packet or produces nothing; on a writer that was
\* never initialised the calls work on a zeroed struct: the thread faults or
\* nothing is sent.
EngineSend ==
    /\ epc = "dispatch"
    /\ msg.type \in {"SEND_RREQ", "SEND_RREP"}
    /\ _writer_lock = NoLock
    /\ m' = [pkt |-> heap[msg.ptr].pkt, next_hop |-> heap[msg.ptr].next_hop]
    /\ heap' = [heap EXCEPT ![msg.ptr] = [st |-> "freed", pkt |-> NoPkt,
                                          next_hop |-> "none", frees |-> @.frees + 1]]
    /\ _writer_lock' = ENGINE
    /\ _writer_context' = [packet_data |-> heap[msg.ptr].pkt,
                           type |-> WriterType(msg.type),
                           target_addr |-> heap[msg.ptr].next_hop]
    /\ \/ _writer /\ epc' = "send_packet"
       \/ _writer /\ epc' = "w_unlock"
       \/ ~_writer /\ epc' = "w_unlock"
       \/ ~_writer /\ epc' = "crashed"
    /\ last' = NoReturn
    /\ UNCHANGED << staticsVars, _reader_lock, collabVars, ipcVars, msg, parsed,
                    pktbuf, pkts, callerVars, fx, hist >>

(* --------------------------- _send_packet ------------------------------ *)
\* the snips gnrc_pktbuf_release(s) releases: s and everything chained behind it
Chain(s) ==
    CASE s = "payload" -> {"payload"}
      [] s = "udp" -> {"udp", "payload"}
      [] s = "ip" -> {"ip", "udp", "payload"}
      [] s = "netif" -> {"netif", "ip", "udp", "payload"}
      [] OTHER -> {}

Allocate(buf, s) == [buf EXCEPT ![s].alloc = TRUE]
Release(buf, head) ==
    [s \in SnipNames |-> IF s \in Chain(head) THEN [buf[s] EXCEPT !.rel = @ + 1] ELSE buf[s]]
HandOver(buf, head) ==
    [s \in SnipNames |-> IF s \in Chain(head) THEN [buf[s] EXCEPT !.handed = @ + 1] ELSE buf[s]]

\* what is released when gnrc_udp_hdr_build fails (lines 167-171)
UdpFailure(buf) == Release(buf, "payload")
\* what is released when gnrc_ipv6_hdr_build fails (lines 175-179)
IpFailure(buf) == Release(buf, "udp")
\* the head of the chain handed to the dispatch: netif_hdr after LL_PREPEND (line 184)
SinkHead(buf) == IF buf["netif"].alloc THEN "netif" ELSE "null"
\* what is released when the dispatch finds no receiver (lines 189-193)
DispatchFailure(buf) == Release(buf, SinkHead(buf))

\* the snips after _send_packet (lines 153-193).  Each gnrc allocation succeeds
\* or fails: at is the stage that failed ("none": all four snips were built),
\* res the dispatch result.
SendPacketBuf(at, res) ==
    LET b1 == Allocate(NoSnips, "payload")
        b2 == Allocate(b1, "udp")
        b3 == Allocate(b2, "ip")
        b4 == Allocate(b3, "netif")
    IN  CASE at = "payload" -> NoSnips
          [] at = "udp" -> UdpFailure(b1)
          [] at = "ip" -> IpFailure(b2)
          [] at = "netif" -> b3
          [] OTHER -> IF res < 1 THEN DispatchFailure(b4) ELSE HandOver(b4, SinkHead(b4))

\* _send_packet (lines 131-194).  The netif header is used unchecked (lines
\* 182-184): when its allocation fails, netif_hdr is NULL and both
\* gnrc_netif_hdr_set_netif and LL_PREPEND go through it, so the thread faults,
\* or it carries on with ip == NULL and the chain built so far is lost.
SendPacket ==
    /\ epc = "send_packet"
    /\ \E at \in {"payload", "udp", "ip", "netif", "none"}, res \in {0, 1} :
          /\ at # "none" => res = 0
          /\ pktbuf' = SendPacketBuf(at, res)
          /\ \/ epc' = "w_unlock"
             \/ at = "netif" /\ epc' = "crashed"
    /\ last' = NoReturn
    /\ UNCHANGED << staticsVars, lockVars, collabVars, _writer_context, ipcVars, msg, m,
                    parsed, heap, pkts, callerVars, fx, hist >>

\* lines 104, 128: mutex_unlock(&_writer_lock); back to msg_receive
EngineUnlockWriter ==
    /\ epc = "w_unlock"
    /\ _writer_lock' = NoLock
    /\ epc' = "receive"
    /\ pktbuf' = NoSnips
    /\ msg' = NoMsg
    /\ m' = NoItem
    /\ last' = NoReturn
    /\ UNCHANGED << staticsVars, _reader_lock, collabVars, _writer_context, ipcVars,
                    parsed, heap, pkts, callerVars, fx, hist >>

(* ------------------------------ _receive ------------------------------ *)
\* lines 268-270, 196-223: take the packet, find the sender, lock the reader,
\* prepare, then parse and dispatch to the handlers; a parse failure is only
\* logged.  On a reader that was never initialised the parse walks a zeroed
\* struct: the thread faults or the parse fails.
EngineReceive ==
    /\ epc = "dispatch"
    /\ msg.type = "RCV"
    /\ _reader_lock = NoLock
    /\ _reader_lock' = ENGINE
    /\ \/ _reader /\ parsed' = "RFC5444_OKAY" /\ epc' = "r_unlock"
       \/ parsed' = "error" /\ epc' = "r_unlock"
       \/ ~_reader /\ parsed' = "none" /\ epc' = "crashed"
    /\ last' = NoReturn
    /\ UNCHANGED << staticsVars, _writer_lock, collabVars, _writer_context, ipcVars,
                    msg, m, heap, pktbuf, pkts, callerVars, fx, hist >>

\* what _receive releases after the parse (line 226)
ReceiveReleaseIfParsed(ps, p, res) ==
    IF res = "RFC5444_OKAY" THEN [ps EXCEPT ![p].rel = @ + 1] ELSE ps
ReceiveRelease(ps, p, res) == [ps EXCEPT ![p].rel = @ + 1]

\* lines 224-226: unlock the reader, release the packet; back to msg_receive
EngineFinishReceive ==
    /\ epc = "r_unlock"
    /\ _reader_lock' = NoLock
    /\ pkts' = ReceiveRelease(pkts, msg.ptr, parsed)
    /\ epc' = "receive"
    /\ msg' = NoMsg
    /\ parsed' = "none"
    /\ last' = NoReturn
    /\ UNCHANGED << staticsVars, _writer_lock, collabVars, _writer_context, ipcVars,
                    m, heap, pktbuf, callerVars, fx, hist >>

\* the message kinds the loop answers with msg_reply (lines 273-275)
RepliesGetOnly(t) == t = "GET"
RepliesAlsoDefault(t) == t \notin {"SEND_RREQ", "SEND_RREP", "RCV"}
Replies(t) == t \in {"GET", "SET"}

\* lines 239-240, 273-276: GET and SET are answered with one msg_reply to the
\* sender, carrying -ENOTSUP
EngineReply ==
    /\ epc = "dispatch"
    /\ Replies(msg.type)
    /\ epc' = "receive"
    /\ msg' = NoMsg
    /\ last' = [NoReturn EXCEPT !.op = "reply", !.val = -ENOTSUP, !.arg = msg.type]
    /\ UNCHANGED << staticsVars, lockVars, collabVars, _writer_context, ipcVars,
                    m, parsed, heap, pktbuf, pkts, callerVars, fx, hist >>

\* lines 278-280: any other message is logged and dropped
EngineDefault ==
    /\ epc = "dispatch"
    /\ msg.type \notin {"SEND_RREQ", "SEND_RREP", "RCV"}
    /\ ~Replies(msg.type)
    /\ epc' = "receive"
    /\ msg' = NoMsg
    /\ last' = [NoReturn EXCEPT !.op = "log", !.arg = msg.type]
    /\ UNCHANGED << staticsVars, lockVars, collabVars, _writer_context, ipcVars,
                    m, parsed, heap, pktbuf, pkts, callerVars, fx, hist >>

(* ------------------------------ public API ---------------------------- *)
\* a work item on the heap, and one whose msg_send failed: it stays allocated
\* and nothing points to it any more (lines 400-403, 428-431)
Allocated(b) == [st |-> "alloc", pkt |-> b.pkt, next_hop |-> b.next_hop, frees |-> 0]
Lost == [st |-> "lost", pkt |-> NoPkt, next_hop |-> "none", frees |-> 0]

\* aodvv2_send_rreq / aodvv2_send_rrep (lines 380-406, 408-434) by caller c with
\* locals b: malloc, copy next hop and payload, msg_send.  The caller is a
\* thread, so msg_send on a full queue suspends it inside the call.
DoSend(c, b) ==
    \/ \* lines 383-387: malloc returns NULL
       /\ last' = Outcome(b, 0, 0)
       /\ pc' = [pc EXCEPT ![c] = "idle"]
       /\ call' = [call EXCEPT ![c] = NoCall]
       /\ UNCHANGED << heap, ipcVars, msg, epc >>
    \/ \* lines 389-405
       LET item == Len(heap) + 1
           r == msg_send(c, IpcMsg(b, item))
       IN  /\ queue' = r.queue
           /\ waiters' = r.waiters
           /\ msg' = r.msg
           /\ epc' = r.epc
           /\ UNCHANGED queueInit
           /\ IF r.blocked
              THEN /\ heap' = Append(heap, Allocated(b))
                   /\ pc' = [pc EXCEPT ![c] = "send_blocked"]
                   /\ call' = [call EXCEPT ![c] = [b EXCEPT !.item = item]]
                   /\ last' = NoReturn
              ELSE /\ heap' = Append(heap, IF r.res < 1 THEN Lost ELSE Allocated(b))
                   /\ last' = Outcome(b, item, r.res)
                   /\ pc' = [pc EXCEPT ![c] = "idle"]
                   /\ call' = [call EXCEPT ![c] = NoCall]

\* another module calls aodvv2_send_rreq or aodvv2_send_rrep
SendCall(c) ==
    /\ pc[c] = "idle"
    /\ hist.calls < MaxCalls
    /\ Alive
    /\ \E s \in SampleSends :
          DoSend(c, [NoCall EXCEPT !.op = s.op, !.pkt = s.pkt, !.next_hop = s.next_hop,
                                   !.full = QueueFull])
    /\ hist' = [hist EXCEPT !.calls = @ + 1]
    /\ UNCHANGED << staticsVars, lockVars, collabVars, _writer_context, m, parsed,
                    pktbuf, pkts, fx >>

\* the metric kind whose maximum find_route takes as hop limit (line 441)
HopLimitKind(cfg) == METRIC_HOP_COUNT

\* the sequence number find_route stamps into orig_node (line 447)
StampSeqnum(store) == aodvv2_seqnum_get(store)

\* aodvv2_find_route, lines 438-447: hop limit, metric kind, OrigNode with the
\* store's current value
FindRouteGet(c) ==
    /\ pc[c] = "idle"
    /\ hist.calls < MaxCalls
    /\ Alive
    /\ \E t \in Addrs :
          call' = [call EXCEPT ![c] =
                     [NoCall EXCEPT !.op = "find_route", !.arg = t,
                        !.pkt = PacketData(aodvv2_metric_max(HopLimitKind(cfgMetric)),
                                           cfgMetric,
                                           Node(_na_netif, 0, StampSeqnum(seqnum)),
                                           Node(NetaddrUnset, 0, 0)),
                        !.held = seqnum]]
    /\ pc' = [pc EXCEPT ![c] = "f_inc"]
    /\ hist' = [hist EXCEPT !.calls = @ + 1, !.stamp = StampSeqnum(seqnum)]
    /\ last' = NoReturn
    /\ UNCHANGED << staticsVars, lockVars, collabVars, _writer_context, epc, ipcVars,
                    msg, m, parsed, heap, pktbuf, pkts, fx >>

\* the store after find_route's increment (line 448)
SeqnumNoInc(store) == store
SeqnumAfterStamp(store) == aodvv2_seqnum_inc(store)

\* line 448: aodvv2_seqnum_inc()
FindRouteInc(c) ==
    /\ pc[c] = "f_inc"
    /\ Alive
    /\ seqnum' = SeqnumAfterStamp(seqnum)
    /\ pc' = [pc EXCEPT ![c] = "f_send"]
    /\ last' = NoReturn
    /\ UNCHANGED << staticsVars, lockVars, cfgMetric, rreqtable, clients,
                    _writer_context, epc, ipcVars, msg, m, parsed, heap, pktbuf, pkts,
                    call, fx, hist >>

\* TargNode of a request for t (lines 451-453)
TargNodeUnset(t) == Node(NetaddrUnset, 0, 0)
TargNode(t) == Node(ipv6_addr_to_netaddr(t), 0, 0)

\* the next hop find_route passes to aodvv2_send_rreq (line 458)
FindRouteNextHop(t) == ipv6_addr_all_manet_routers_link_local

\* lines 450-458: TargNode, aodvv2_rreqtable_add, aodvv2_send_rreq to all routers
FindRouteSend(c) ==
    /\ pc[c] = "f_send"
    /\ Alive
    /\ LET pkt == [call[c].pkt EXCEPT !.targ_node = TargNode(call[c].arg)] IN
       /\ rreqtable' = aodvv2_rreqtable_add(rreqtable, pkt)
       /\ DoSend(c, [call[c] EXCEPT !.pkt = pkt, !.next_hop = FindRouteNextHop(call[c].arg),
                                    !.full = QueueFull])
    /\ UNCHANGED << staticsVars, lockVars, cfgMetric, seqnum, clients, _writer_context,
                    m, parsed, pktbuf, pkts, fx, hist >>

(* ------------------------------ aodvv2_init --------------------------- *)
\* line 293: the test for an engine that is already running
AlreadyRunningNever(p) == FALSE
AlreadyRunning(p) == p # KERNEL_PID_UNDEF

\* aodvv2_init(n) returns v to caller c
InitReturns(c, n, v, h) ==
    /\ pc' = [pc EXCEPT ![c] = "idle"]
    /\ call' = [call EXCEPT ![c] = NoCall]
    /\ last' = [NoReturn EXCEPT !.op = "init", !.val = v, !.arg = n]
    /\ hist' = [h EXCEPT !.firstId = IF @ = 0 /\ v > 0 THEN v ELSE @]

\* lines 288-295: the call and the test of _pid
InitCheck(c) ==
    /\ pc[c] = "idle"
    /\ hist.inits < MaxInits
    /\ Alive
    /\ \E n \in Netifs :
          /\ hist.inits = 0 => n = "if0"
          /\ IF AlreadyRunning(_pid)
             THEN InitReturns(c, n, _pid, [hist EXCEPT !.inits = @ + 1])
             ELSE /\ pc' = [pc EXCEPT ![c] = "i_thread"]
                  /\ call' = [call EXCEPT ![c] = [NoCall EXCEPT !.op = "init", !.arg = n]]
                  /\ hist' = [hist EXCEPT !.inits = @ + 1]
                  /\ last' = NoReturn
    /\ UNCHANGED << staticsVars, lockVars, collabVars, _writer_context, epc, ipcVars,
                    msg, m, parsed, heap, pktbuf, pkts, fx >>

\* lines 297-303: mutex_init of both locks, then _pid = thread_create(...), which
\* gives the new thread's PID or a negative error.  The model follows the
\* first engine thread; a further one is counted and takes the next PID.
InitThread(c) ==
    /\ pc[c] = "i_thread"
    /\ Alive
    /\ _writer_lock' = NoLock
    /\ _reader_lock' = NoLock
    /\ \/ /\ _pid' = EnginePid + fx.threads
          /\ epc' = IF epc = "none" THEN "start" ELSE epc
          /\ fx' = [fx EXCEPT !.mutexInits = @ + 1, !.threads = @ + 1]
       \/ /\ _pid' \in ThreadCreateErrors
          /\ fx' = [fx EXCEPT !.mutexInits = @ + 1]
          /\ UNCHANGED epc
    /\ pc' = [pc EXCEPT ![c] = "i_addr"]
    /\ last' = NoReturn
    /\ UNCHANGED << _netif, _na_netif, netreg, _reader, _writer, collabVars,
                    _writer_context, ipcVars, msg, m, parsed, heap, pktbuf, pkts,
                    call, hist >>

\* lines 305-323: give up on a negative _pid; else save netif and ask it for
\* the node's address, which can fail
InitAddr(c) ==
    /\ pc[c] = "i_addr"
    /\ Alive
    /\ IF _pid < 0
       THEN /\ InitReturns(c, call[c].arg, _pid, hist)
            /\ UNCHANGED << _netif, _na_netif >>
       ELSE /\ _netif' = call[c].arg
            /\ \/ /\ InitReturns(c, call[c].arg, -1, hist)
                  /\ UNCHANGED _na_netif
               \/ /\ _na_netif' = ipv6_addr_to_netaddr(NodeAddr)
                  /\ pc' = [pc EXCEPT ![c] = "i_collab"]
                  /\ last' = NoReturn
                  /\ UNCHANGED << call, hist >>
    /\ UNCHANGED << _pid, netreg, _reader, _writer, lockVars, collabVars,
                    _writer_context, epc, ipcVars, msg, m, parsed, heap, pktbuf, pkts,
                    fx >>

\* lines 325-333: the collaborators' init calls and the node as its own client;
\* the store starts a new life
InitCollab(c) ==
    /\ pc[c] = "i_collab"
    /\ Alive
    /\ seqnum' = aodvv2_seqnum_init
    /\ rreqtable' = aodvv2_rreqtable_init
    /\ clients' = << [addr |-> NodeAddr, metric |-> cfgMetric] >>
    /\ fx' = [fx EXCEPT !.collabInits = @ + 1]
    /\ hist' = [hist EXCEPT !.stamp = -1]
    /\ pc' = [pc EXCEPT ![c] = "i_netreg"]
    /\ last' = NoReturn
    /\ UNCHANGED << staticsVars, lockVars, cfgMetric, _writer_context, epc, ipcVars,
                    msg, m, parsed, heap, pktbuf, pkts, call >>

\* lines 335-338: register _pid for the protocol port
InitNetreg(c) ==
    /\ pc[c] = "i_netreg"
    /\ Alive
    /\ netreg' = _pid
    /\ fx' = [fx EXCEPT !.netregs = @ + 1]
    /\ pc' = [pc EXCEPT ![c] = "i_reader"]
    /\ last' = NoReturn
    /\ UNCHANGED << _pid, _netif, _na_netif, _reader, _writer, lockVars, collabVars,
                    _writer_context, epc, ipcVars, msg, m, parsed, heap, pktbuf, pkts,
                    call, hist >>

\* lines 340-350: under the reader lock, init the reader and register both handlers
InitReader(c) ==
    /\ pc[c] = "i_reader"
    /\ Alive
    /\ _reader_lock = NoLock
    /\ _reader' = TRUE
    /\ fx' = [fx EXCEPT !.readerInits = @ + 1]
    /\ pc' = [pc EXCEPT ![c] = "i_writer"]
    /\ last' = NoReturn
    /\ UNCHANGED << _pid, _netif, _na_netif, netreg, _writer, lockVars, collabVars,
                    _writer_context, epc, ipcVars, msg, m, parsed, heap, pktbuf, pkts,
                    call, hist >>

\* lines 352-377: under the writer lock, set the buffers, the target and its
\* sink, init the writer and register target and message provider; return _pid
InitWriter(c) ==
    /\ pc[c] = "i_writer"
    /\ Alive
    /\ _writer_lock = NoLock
    /\ _writer' = TRUE
    /\ fx' = [fx EXCEPT !.writerInits = @ + 1]
    /\ InitReturns(c, call[c].arg, _pid, hist)
    /\ UNCHANGED << _pid, _netif, _na_netif, netreg, _reader, lockVars, collabVars,
                    _writer_context, epc, ipcVars, msg, m, parsed, heap, pktbuf, pkts >>

(* ---------------------------- environment ----------------------------- *)
\* gnrc_netapi_dispatch_receive and the other threads use msg_try_send / a
\* queue slot: the message is taken when the engine waits or its queue has room
CanTake == epc = "blocked" \/ (queueInit /\ Len(queue) < QueueSize)
Take(mm) ==
    IF epc = "blocked"
    THEN /\ msg' = mm
         /\ epc' = "dispatch"
         /\ UNCHANGED queue
    ELSE /\ queue' = Append(queue, mm)
         /\ UNCHANGED << msg, epc >>

\* a UDP packet for the protocol port reaches the engine (GNRC_NETAPI_MSG_TYPE_RCV)
NetDeliver ==
    /\ Alive
    /\ ThreadExists(netreg)
    /\ hist.env < MaxEnv
    /\ CanTake
    /\ pkts' = Append(pkts, [rel |-> 0])
    /\ Take([type |-> "RCV", ptr |-> Len(pkts) + 1])
    /\ hist' = [hist EXCEPT !.env = @ + 1]
    /\ last' = NoReturn
    /\ UNCHANGED << staticsVars, lockVars, collabVars, _writer_context, queueInit,
                    waiters, m, parsed, heap, pktbuf, callerVars, fx >>

\* another thread sends the engine a netapi GET or SET, or some other message
CtlSend ==
    /\ Alive
    /\ ThreadExists(_pid)
    /\ hist.env < MaxEnv
    /\ CanTake
    /\ \E t \in {"GET", "SET", "OTHER"} : Take([type |-> t, ptr |-> 0])
    /\ hist' = [hist EXCEPT !.env = @ + 1]
    /\ last' = NoReturn
    /\ UNCHANGED << staticsVars, lockVars, collabVars, _writer_context, queueInit,
                    waiters, m, parsed, heap, pktbuf, pkts, callerVars, fx >>

(* --------------------------- specification ---------------------------- *)
Engine ==
    \/ EngineInitQueue
    \/ EngineReceiveQueued
    \/ EngineReceiveWaiter
    \/ EngineReceiveBlock
    \/ EngineSend
    \/ SendPacket
    \/ EngineUnlockWriter
    \/ EngineReceive
    \/ EngineFinishReceive
    \/ EngineReply
    \/ EngineDefault

Next ==
    \/ Engine
    \/ \E c \in Senders : SendCall(c)
    \/ \E c \in Senders : FindRouteGet(c)
    \/ \E c \in Senders : FindRouteInc(c)
    \/ \E c \in Senders : FindRouteSend(c)
    \/ \E c \in Initers : InitCheck(c)
    \/ \E c \in Initers : InitThread(c)
    \/ \E c \in Initers : InitAddr(c)
    \/ \E c \in Initers : InitCollab(c)
    \/ \E c \in Initers : InitNetreg(c)
    \/ \E c \in Initers : InitReader(c)
    \/ \E c \in Initers : InitWriter(c)
    \/ NetDeliver
    \/ CtlSend

Spec == Init /\ [][Next]_vars

\* the engine on its send side, one init and route discovery from several threads
EngineSendSide ==
    \/ EngineInitQueue
    \/ EngineReceiveQueued
    \/ EngineReceiveWaiter
    \/ EngineReceiveBlock
    \/ EngineSend
    \/ SendPacket
    \/ EngineUnlockWriter

NextFind ==
    \/ EngineSendSide
    \/ \E c \in Finders : FindRouteGet(c)
    \/ \E c \in Finders : FindRouteInc(c)
    \/ \E c \in Finders : FindRouteSend(c)
    \/ \E c \in Initers : InitCheck(c)
    \/ \E c \in Initers : InitThread(c)
    \/ \E c \in Initers : InitAddr(c)
    \/ \E c \in Initers : InitCollab(c)
    \/ \E c \in Initers : InitNetreg(c)
    \/ \E c \in Initers : InitReader(c)
    \/ \E c \in Initers : InitWriter(c)

SpecFind == Init /\ [][NextFind]_vars

\* aodvv2_init called from several threads
NextInitRace ==
    \/ \E c \in Racers : InitCheck(c)
    \/ \E c \in Racers : InitThread(c)
    \/ \E c \in Racers : InitAddr(c)
    \/ \E c \in Racers : InitCollab(c)
    \/ \E c \in Racers : InitNetreg(c)
    \/ \E c \in Racers : InitReader(c)
    \/ \E c \in Racers : InitWriter(c)

SpecInitRace == Init /\ [][NextInitRace]_vars

(* ------------------------------- claims ------------------------------- *)
SendOps == {"send_rreq", "send_rrep"}
SendTypes == {"SEND_RREQ", "SEND_RREP"}
\* the engine holds no work item: nothing bound, locked or built
Idle ==
    /\ _writer_lock = NoLock
    /\ _reader_lock = NoLock
    /\ m = NoItem
    /\ parsed = "none"
    /\ pktbuf = NoSnips
\* the work item of message mm is waiting in the queue or is being handled
Pending(mm) == msg = mm \/ \E i \in 1..Len(queue) : queue[i] = mm

\* C1 - Ordering: the engine takes the work items in the order they were
\* enqueued, and it takes one only when the handling of the one before is
\* over: the writer and reader locks are free and nothing of the previous
\* item is bound, parsed or being built; while an item is handled, no other
\* is taken.
C1_Ordering ==
    [][/\ (msg = NoMsg /\ msg' # NoMsg) =>
             /\ Idle
             /\ queue # << >> => /\ msg' = Head(queue)
                                 /\ SubSeq(queue', 1, Len(queue) - 1) = Tail(queue)
       /\ (msg # NoMsg /\ msg' # msg) => (msg' = NoMsg /\ Idle')
      ]_vars
\* a request was handled, then a packet and a request were enqueued in that
\* order, and the engine has taken the packet
C1_Witness ==
    /\ epc = "dispatch"
    /\ msg.type = "RCV"
    /\ Len(queue) = 1
    /\ queue[1].type \in SendTypes
    /\ \E i \in DOMAIN heap : heap[i].st = "freed"

\* C2 - Queue-full rejection: a send_rreq / send_rrep call made while the
\* queue holds its full capacity returns an error and its work item is
\* neither in the queue nor with the engine.
C2_QueueFullRejected ==
    (last.op \in SendOps /\ last.full) =>
        /\ last.val = -1
        /\ \A t \in SendTypes : ~Pending([type |-> t, ptr |-> last.item])

\* C3 - Sequence-number monotonicity: each find_route stamps the store's
\* current value and increments the store once, so a call that starts when no
\* other call is between its read and its increment stamps a value greater
\* than the one stamped before it.
C3_SeqnumMonotonic ==
    [][\A c \in Senders :
         /\ (pc[c] = "idle" /\ pc'[c] = "f_inc") =>
               /\ call'[c].pkt.orig_node.seqnum = seqnum
               /\ (hist.stamp >= 0 /\ \A d \in Senders : pc[d] # "f_inc") =>
                      call'[c].pkt.orig_node.seqnum > hist.stamp
         /\ (pc[c] = "f_inc" /\ pc'[c] = "f_send") => seqnum' = seqnum + 1
      ]_vars
\* a second find_route in the life of the store has stamped its value
C3_Witness ==
    \E c \in Senders :
        /\ pc[c] = "f_inc"
        /\ rreqtable.n = 1
        /\ rreqtable.newest.orig_node.seqnum = aodvv2_seqnum_init
        /\ call[c].pkt.orig_node.seqnum = aodvv2_seqnum_init + 1

\* C4 - Idempotent initialization: once an init call has returned a valid
\* identity, every init call returns that identity, and no step creates a
\* thread, re-initialises a mutex or a collaborator, registers with the
\* transport, re-binds reader or writer, or changes the stored interface,
\* address or identity.
C4_IdempotentInit ==
    [][/\ (last'.op = "init" /\ hist'.firstId # 0) => last'.val = hist'.firstId
       /\ hist.firstId # 0 =>
             /\ fx' = fx
             /\ _pid' = _pid
             /\ _netif' = _netif
             /\ _na_netif' = _na_netif
             /\ netreg' = netreg
             /\ _reader' = _reader
             /\ _writer' = _writer
      ]_vars
\* after a complete first init on if0, a second init with if1 has returned
C4_Witness ==
    /\ last.op = "init"
    /\ last.arg = "if1"
    /\ last.val = EnginePid
    /\ hist.inits = 2
    /\ _writer
    /\ _netif = "if0"
    /\ fx.threads = 1

\* C5 - Hop-bound correctness: the hoplimit of the request find_route builds
\* is the metric module's maximum for the metric kind written into the
\* request's metric_type, the configured default.
C5_HopBound ==
    \A c \in Senders :
        call[c].op = "find_route" =>
            /\ call[c].pkt.metric_type = cfgMetric
            /\ call[c].pkt.hoplimit = aodvv2_metric_max(call[c].pkt.metric_type)

\* C6 - Transmission Sink releases on every failure: after _send_packet the
\* engine is back in its loop; every snip that was allocated has been released
\* exactly once or handed to the transport exactly once, never both; snips are
\* handed over only when all four were built and the dispatch succeeded.
C6_SinkReleases ==
    (epc \in {"w_unlock", "crashed"} /\ pktbuf["payload"].alloc) =>
        /\ epc = "w_unlock"
        /\ \A s \in SnipNames : pktbuf[s].alloc => pktbuf[s].rel + pktbuf[s].handed = 1
        /\ (\E s \in SnipNames : pktbuf[s].handed > 0) =>
               \A s \in SnipNames : pktbuf[s].alloc /\ pktbuf[s].handed = 1

\* C7 - Inbound release exactly once: a packet is never released twice; it is
\* unreleased only while its work item is queued or being handled; the reader
\* lock is held only inside _receive; and when _receive is over the packet has
\* been released once, the reader lock is free and the engine waits for the
\* next item, whatever the parse gave.
InboundHeld ==
    /\ \A p \in DOMAIN pkts :
          /\ pkts[p].rel <= 1
          /\ pkts[p].rel = 0 <=> Pending([type |-> "RCV", ptr |-> p])
    /\ _reader_lock = ENGINE => epc \in {"r_unlock", "crashed"}
C7_InboundReleasedOnce ==
    [][/\ InboundHeld'
       /\ (epc = "r_unlock" /\ epc' # epc) =>
             /\ parsed \in {"RFC5444_OKAY", "error"}
             /\ pkts'[msg.ptr].rel = 1
             /\ _reader_lock' = NoLock
             /\ epc' = "receive"
      ]_vars
\* a packet was handled and released, and the engine has taken the next item
C7_Witness ==
    /\ Len(pkts) = 1
    /\ pkts[1].rel = 1
    /\ _reader_lock = NoLock
    /\ epc = "dispatch"
    /\ msg.type \in SendTypes

\* the engine can take a message at once: it waits in msg_receive or its
\* queue has room
Room == ThreadExists(_pid) /\ CanTake

\* C8 - find_route request contents: find_route(t), called when the store
\* holds s, builds a request with origin (own address, 0, s); with room in the
\* queue and a work item allocated it returns success and exactly one
\* SEND_RREQ message for a new work item is enqueued, which carries origin
\* (own address, 0, s), target (netaddr of t, 0, 0) and the all-routers next
\* hop; the request is registered once with the request table; and the
\* increment leaves the successor of s in the store.
C8_FindRouteContents ==
    [][\A c \in Senders :
         /\ (pc[c] = "idle" /\ pc'[c] = "f_inc") =>
               /\ call'[c].pkt.orig_node = Node(_na_netif, 0, seqnum)
               /\ call'[c].held = seqnum
               /\ fx.writerInits > 0 =>
                      call'[c].pkt.orig_node.addr = ipv6_addr_to_netaddr(NodeAddr)
         /\ (pc[c] = "f_inc" /\ pc'[c] = "f_send" /\ seqnum = call[c].held) =>
               seqnum' = call[c].held + 1
         /\ (pc[c] = "f_send" /\ pc'[c] # "f_send") =>
               /\ rreqtable'.n = rreqtable.n + 1
               /\ rreqtable'.newest.orig_node = call[c].pkt.orig_node
               /\ rreqtable'.newest.targ_node =
                      Node(ipv6_addr_to_netaddr(call[c].arg), 0, 0)
               /\ (Room /\ last'.alloc) =>
                      LET item == Len(heap) + 1
                          mm == [type |-> "SEND_RREQ", ptr |-> item]
                      IN  /\ last'.op = "find_route"
                          /\ last'.val = 0
                          /\ Len(heap') = item
                          /\ heap'[item].st = "alloc"
                          /\ heap'[item].pkt = rreqtable'.newest
                          /\ heap'[item].pkt.orig_node.seqnum = call[c].held
                          /\ heap'[item].next_hop = ipv6_addr_all_manet_routers_link_local
                          /\ \/ queue' = Append(queue, mm) /\ msg' = msg
                             \/ queue' = queue /\ msg = NoMsg /\ msg' = mm
      ]_vars
\* after a complete init, find_route has returned success with its request,
\* stamped with the store's first value, at the end of the queue
C8_Witness ==
    /\ last.op = "find_route"
    /\ last.val = 0
    /\ queue # << >>
    /\ queue[Len(queue)] = [type |-> "SEND_RREQ", ptr |-> last.item]
    /\ heap[last.item].pkt.orig_node =
           Node(ipv6_addr_to_netaddr(NodeAddr), 0, aodvv2_seqnum_init)
    /\ heap[last.item].pkt.targ_node = Node(ipv6_addr_to_netaddr(last.arg), 0, 0)
    /\ seqnum = aodvv2_seqnum_init + 1
    /\ rreqtable.n = 1

\* C9 - Initialization failure does not partially commit: when init returns
\* an error because no engine thread could be started, the engine identity,
\* interface, address, transport registration and reader / writer bindings
\* are what they were before the call: the engine is still not running.
C9_InitFailureClean ==
    (last.op = "init" /\ last.val < 0 /\ fx.threads = 0) =>
        /\ _pid = KERNEL_PID_UNDEF
        /\ _netif = "none"
        /\ _na_netif = NetaddrUnset
        /\ netreg = KERNEL_PID_UNDEF
        /\ ~_reader
        /\ ~_writer

\* C10 - Fire-and-forget result: a send_rreq / send_rrep call returns an error
\* if and only if the work item allocation failed or the enqueue failed
\* because the queue was full or the engine was not running.
C10_FireAndForget ==
    last.op \in SendOps =>
        (last.val = -1 <=> (~last.alloc \/ last.full \/ last.res = -1))

\* C11 - Writer binding consistency: whenever _send_packet runs, the engine
\* holds the writer lock and the writer context holds the payload and the
\* next hop of the work item the engine copied out, with kind RREQ for a
\* SEND_RREQ message and RREP for a SEND_RREP message; and the context is
\* bound only by a step that takes the free writer lock while nothing of an
\* earlier item is bound or being built.
C11_WriterBinding ==
    [][/\ epc' = "send_packet" =>
             /\ _writer_lock' = ENGINE
             /\ msg'.type \in SendTypes
             /\ _writer_context'.packet_data = m'.pkt
             /\ _writer_context'.target_addr = m'.next_hop
             /\ msg'.type = "SEND_RREQ" => _writer_context'.type = "RFC5444_MSGTYPE_RREQ"
             /\ msg'.type = "SEND_RREP" => _writer_context'.type = "RFC5444_MSGTYPE_RREP"
       /\ _writer_context' # _writer_context =>
             /\ Idle
             /\ epc = "dispatch"
             /\ _writer_lock' = ENGINE
             /\ m' = [pkt |-> heap[msg.ptr].pkt, next_hop |-> heap[msg.ptr].next_hop]
      ]_vars
\* the sink runs for a reply that follows an earlier work item through the writer
C11_Witness ==
    /\ epc = "send_packet"
    /\ msg = [type |-> "SEND_RREP", ptr |-> 2]
    /\ heap[1].st = "freed"
    /\ _writer_context.type = "RFC5444_MSGTYPE_RREP"
    /\ _writer_context.target_addr = "a2"

\* C12 - Distinct sequence numbers under concurrent discovery: two find_route
\* calls in progress at the same time, both begun after the store was
\* initialised, carry different origin sequence numbers.
C12_DistinctSeqnums ==
    \A c, d \in Finders :
        (/\ c # d
         /\ fx.collabInits = 1
         /\ pc[c] \in {"f_inc", "f_send"}
         /\ pc[d] \in {"f_inc", "f_send"}
         /\ call[c].pkt.orig_node.seqnum >= aodvv2_seqnum_init
         /\ call[d].pkt.orig_node.seqnum >= aodvv2_seqnum_init) =>
            call[c].pkt.orig_node.seqnum # call[d].pkt.orig_node.seqnum

\* C13 - Exactly-once processing and progress: no work item is handled more
\* than once, the engine is suspended in msg_receive only while its queue is
\* empty, and the engine never stops for good while messages wait in its
\* queue, so that under fair scheduling each of them is taken and handled.
C13_ExactlyOnceProgress ==
    /\ \A i \in DOMAIN heap : heap[i].frees <= 1
    /\ \A p \in DOMAIN pkts : pkts[p].rel <= 1
    /\ epc = "blocked" => queue = << >>
    /\ queue # << >> => Alive

\* C14 - Unsupported control query: the step that handles a GET or SET sends
\* one reply carrying -ENOTSUP for that message, leaves the writer and reader
\* contexts, their locks and every buffer as they were, and returns to
\* msg_receive.
C14_ControlReply ==
    [][(epc = "dispatch" /\ msg.type \in {"GET", "SET"} /\ epc' # epc) =>
          /\ last' = [NoReturn EXCEPT !.op = "reply", !.val = -ENOTSUP, !.arg = msg.type]
          /\ epc' = "receive"
          /\ msg' = NoMsg
          /\ UNCHANGED << _reader, _writer, _writer_context, lockVars, heap, pktbuf,
                          pkts, queue >>
      ]_vars
\* a SET that waited behind another message has been answered
C14_Witness ==
    /\ last.op = "reply"
    /\ last.arg = "SET"
    /\ last.val = -ENOTSUP
    /\ epc = "receive"
    /\ \E i \in DOMAIN heap : heap[i].st = "freed"

\* the send message of work item i
SendMsgs(i) == {[type |-> t, ptr |-> i] : t \in SendTypes}

\* C15 - WorkItem storage is released exactly once: no work item is freed
\* twice, and every allocated work item is freed, or its message is in the
\* queue or with the engine, or its producer is still inside its send call.
C15_ItemsReleasedOnce ==
    \A i \in DOMAIN heap :
        /\ heap[i].frees <= 1
        /\ \/ heap[i].st = "freed"
           \/ \E mm \in SendMsgs(i) : Pending(mm)
           \/ \E c \in Callers : pc[c] = "send_blocked" /\ call[c].item = i

\* C16 - Valid identity implies a bound engine: when an init call returns a
\* valid identity, the own address is stored, the collaborators are
\* initialised, the transport registration names that identity and reader
\* and writer are bound.
C16_ValidIdentityBound ==
    (last.op = "init" /\ last.val > 0) =>
        /\ _na_netif = ipv6_addr_to_netaddr(NodeAddr)
        /\ fx.collabInits >= 1
        /\ netreg = last.val
        /\ _reader
        /\ _writer

\* C17 - At most one Engine Thread: whatever the interleaving of init calls,
\* at most one thread is created and mutexes, collaborators, transport
\* registration, reader and writer are initialised at most once.
C17_OneEngineThread ==
    /\ fx.threads <= 1
    /\ fx.mutexInits <= 1
    /\ fx.collabInits <= 1
    /\ fx.netregs <= 1
    /\ fx.readerInits <= 1
    /\ fx.writerInits <= 1

\* C18 - No work before binding: the engine parses an inbound packet only
\* with the reader initialised and flushes a work item only with the writer
\* initialised.
C18_NoWorkBeforeBinding ==
    /\ (msg.type = "RCV" /\ epc \in {"r_unlock", "crashed"}) => _reader
    /\ (msg.type \in SendTypes /\ epc \in {"send_packet", "w_unlock", "crashed"}) =>
           _writer

\* C19 - Unrecognized WorkItem kinds are non-fatal: the step that handles a
\* message of no known kind only logs it: it sends no reply, leaves writer
\* and reader contexts, locks, heap, buffers and queue as they were, and
\* returns to msg_receive.
C19_UnknownDiscarded ==
    [][(/\ epc = "dispatch"
        /\ msg.type \notin {"SEND_RREQ", "SEND_RREP", "RCV", "GET", "SET"}
        /\ epc' # epc) =>
          /\ last' = [NoReturn EXCEPT !.op = "log", !.arg = msg.type]
          /\ epc' = "receive"
          /\ msg' = NoMsg
          /\ UNCHANGED << _reader, _writer, _writer_context, lockVars, heap, pktbuf,
                          pkts, queue >>
      ]_vars
\* a message of another kind was discarded with a work item still queued
C19_Witness ==
    /\ last.op = "log"
    /\ last.arg = "OTHER"
    /\ epc = "receive"
    /\ queue # << >>
    /\ queue[1].type \in SendTypes
====
